---- MODULE Spec2Model ----
(***************************************************************************)
(* Model of the gRPC -> HTTP inference gateway.                            *)
(*                                                                         *)
(* Two server programs exist in the repository:                            *)
(*   - the instrumented server (metrics, /health, graceful shutdown),      *)
(*     src/unnamed/part_000; its definitions carry the source's names;     *)
(*   - the server of cmd/server/main.go; its definitions are prefixed Cmd. *)
(*                                                                         *)
(* JSON byte strings are modelled as syntax trees ("documents"); numbers   *)
(* keep their literal, so that decoding (literal -> float64) and encoding  *)
(* (float64 -> shortest literal) are real conversions.  float64 values are *)
(* modelled as integers counting tenths (1.0 is 10, 0.9 is 9).             *)
(***************************************************************************)
EXTENDS Integers, Sequences, FiniteSets, TLC

\* ------------------------------------------------------------------ bounds
NumCalls == 2        \* concurrent Predict calls in the system specification
MaxLen == 2          \* longest JSON array in the data specifications
MaxHTTPReq == 1      \* concurrent /metrics or /health requests

Calls == 1..NumCalls

\* --------------------------------------------------------- JSON documents
Bad == [k |-> "bad"]            \* bytes that are not a JSON text (also no bytes)
Null == [k |-> "null"]
Absent == [k |-> "absent"]      \* an object member that is not present
NoDoc == [k |-> "none"]         \* no bytes at all were produced / received
Num(l) == [k |-> "num", lit |-> l]
Str(s) == [k |-> "str", s |-> s]
Arr(es) == [k |-> "arr", elems |-> es]
Obj(m, o, s) == [k |-> "obj", model_name |-> m, output |-> o, status |-> s]
ReqDoc(m, i) == [k |-> "req", model_name |-> m, input |-> i]

\* strconv.ParseFloat(lit, 64) as used by encoding/json: value in tenths,
\* ok = FALSE when the literal is out of the float64 range
ParseFloat(l) ==
    CASE l = "1.0" -> [ok |-> TRUE, val |-> 10]
      [] l = "1" -> [ok |-> TRUE, val |-> 10]
      [] l = "0.9" -> [ok |-> TRUE, val |-> 9]
      [] l = "0" -> [ok |-> TRUE, val |-> 0]
      [] OTHER -> [ok |-> FALSE, val |-> 0]

\* encoding/json's float64 encoder: the shortest literal of the value
FormatFloat(v) ==
    CASE v = 10 -> "1"
      [] v = 9 -> "0.9"
      [] OTHER -> "0"

\* Go slices: nil and empty are distinct values of length 0
NilSlice == [isNil |-> TRUE, elems |-> <<>>]
Slice(es) == [isNil |-> FALSE, elems |-> es]

\* one array element decoded into a float64 slot: a number sets it, null
\* leaves the zero value, anything else is an UnmarshalTypeError
decodeElem(d) ==
    IF d.k = "num" THEN [err |-> ~ParseFloat(d.lit).ok, val |-> ParseFloat(d.lit).val]
    ELSE IF d.k = "null" THEN [err |-> FALSE, val |-> 0]
    ELSE [err |-> TRUE, val |-> 0]

\* json.Unmarshal(bytes, &[]float64)
unmarshalFloats(d) ==
    IF d.k = "null" THEN [err |-> FALSE, slice |-> NilSlice]
    ELSE IF d.k = "arr" THEN
        IF \E i \in 1..Len(d.elems) : decodeElem(d.elems[i]).err
        THEN [err |-> TRUE, slice |-> NilSlice]
        ELSE [err |-> FALSE,
              slice |-> Slice([i \in 1..Len(d.elems) |-> decodeElem(d.elems[i]).val])]
    ELSE [err |-> TRUE, slice |-> NilSlice]

\* a string member of a decoded struct: absent and null leave ""
decodeString(d) ==
    IF d.k = "str" THEN [err |-> FALSE, val |-> d.s]
    ELSE IF d.k \in {"absent", "null"} THEN [err |-> FALSE, val |-> ""]
    ELSE [err |-> TRUE, val |-> ""]

\* a []float64 member of a decoded struct
decodeSliceMember(d) ==
    IF d.k = "absent" THEN [err |-> FALSE, slice |-> NilSlice]
    ELSE unmarshalFloats(d)

APIResponse(m, o, s) == [ModelName |-> m, Output |-> o, Status |-> s]
ZeroAPIResponse == APIResponse("", NilSlice, "")

\* json.Unmarshal(body, &APIResponse)
unmarshalAPIResponse(d) ==
    IF d.k = "null" THEN [err |-> FALSE, val |-> ZeroAPIResponse]
    ELSE IF d.k = "obj" THEN
        LET m == decodeString(d.model_name)
            o == decodeSliceMember(d.output)
            s == decodeString(d.status)
        IN  IF m.err \/ o.err \/ s.err
            THEN [err |-> TRUE, val |-> ZeroAPIResponse]
            ELSE [err |-> FALSE, val |-> APIResponse(m.val, o.slice, s.val)]
    ELSE [err |-> TRUE, val |-> ZeroAPIResponse]

\* json.Marshal([]float64): nil encodes as null; every finite float64
\* encodes, and only finite values come out of a JSON decode
marshalFloats(sl) ==
    IF sl.isNil THEN [err |-> FALSE, doc |-> Null]
    ELSE [err |-> FALSE,
          doc |-> Arr([i \in 1..Len(sl.elems) |-> Num(FormatFloat(sl.elems[i]))])]

InputData(m, i) == [ModelName |-> m, Input |-> i]
NoInput == InputData("", NilSlice)

\* json.Marshal(InputData{...}) with the tags model_name and input
marshalInputData(in) ==
    [err |-> marshalFloats(in.Input).err,
     doc |-> ReqDoc(Str(in.ModelName), marshalFloats(in.Input).doc)]

\* JSON equality of two documents: same structure, numbers equal as numbers
RECURSIVE JSONEq(_, _)
JSONEq(a, b) ==
    IF a.k # b.k THEN FALSE
    ELSE IF a.k = "num" THEN
        /\ ParseFloat(a.lit).ok /\ ParseFloat(b.lit).ok
        /\ ParseFloat(a.lit).val = ParseFloat(b.lit).val
    ELSE IF a.k = "arr" THEN
        /\ Len(a.elems) = Len(b.elems)
        /\ \A i \in 1..Len(a.elems) : JSONEq(a.elems[i], b.elems[i])
    ELSE a = b

\* a JSON array whose members are all numbers a float64 can hold
IsNumberArray(d) ==
    /\ d.k = "arr"
    /\ \A i \in 1..Len(d.elems) :
          d.elems[i].k = "num" /\ ParseFloat(d.elems[i].lit).ok

\* ------------------------------------------------------------ gRPC status
InvalidArgument == "InvalidArgument"
Unavailable == "Unavailable"
Internal == "Internal"
OK == "OK"

\* a status error: code, the format string, and what %v / %d / %s expand to
StatusErr(code, text, innerCode, innerText, cause, httpStatus, body) ==
    [code |-> code, text |-> text, innerCode |-> innerCode,
     innerText |-> innerText, cause |-> cause, httpStatus |-> httpStatus,
     body |-> body]
NoErr == StatusErr(OK, "", "", "", "", 0, NoDoc)
PlainErr(code, text) == StatusErr(code, text, "", "", "", 0, NoDoc)

\* what Predict handed back to the gRPC runtime
NoResult == [kind |-> "none", err |-> NoErr, OutputData |-> NoDoc, Status |-> ""]
Reply(out, st) == [kind |-> "reply", err |-> NoErr, OutputData |-> out, Status |-> st]
Failure(e) == [kind |-> "error", err |-> e, OutputData |-> NoDoc, Status |-> ""]

Labels == {"ok", "bad-input", "empty-input", "api-error", "internal-error"}

\* how an outbound exchange ended, as seen by sendDataToAPI
Response(code, body) == [kind |-> "response", cause |-> "", code |-> code, body |-> body]
NoOutcome == [kind |-> "none", cause |-> "", code |-> 0, body |-> NoDoc]
DoError(cause) == [kind |-> "doerr", cause |-> cause, code |-> 0, body |-> NoDoc]
ReadError(code, cause) == [kind |-> "readerr", cause |-> cause, code |-> code, body |-> NoDoc]

\* ------------------------------------------------------------------ state
VARIABLES
    pc,               \* per call: idle, received, validated, forwarded, done
    stages,           \* per call: the handler stages passed so far
    req,              \* per call: the PredictRequest (ModelName, InputData)
    input_data,       \* per call: the InputData built after validation
    ctxDone,          \* per call: the call's context has been cancelled
    outbound,         \* per call: none, pending, completed, failed, aborted
    httpCalls,        \* per call: bodies of the POSTs handed to httpClient.Do
    downstream,       \* per call: how the outbound exchange ended
    result,           \* per call: what Predict returned
    statusLabel,      \* per call: the handler's statusLabel variable
    observed,         \* per call: latency observations made by the call
    counted,          \* per call: labels the call incremented
    requestCount,     \* inference_requests_total by status label
    requestDuration,  \* inference_request_duration_seconds sample count
    mainPc,           \* position of main
    httpSrv,          \* metrics/health server: new, serving, closed
    httpInflight,     \* metrics/health requests being served
    shutdownErr,      \* httpSrv.Shutdown returned an error (deadline)
    grpcSrv,          \* gRPC server: new, serving, draining, stopped
    stopped,          \* the channel `stopped` is closed
    forced,           \* grpcServer.Stop() was called after the grace period
    clientPc,         \* client program: idle, calling, returned, fatal
    clientReq,        \* client program: the request given to MakePrediction
    clientCall        \* client program: what client.Predict was invoked with

callVars == <<pc, stages, req, input_data, ctxDone, outbound, httpCalls,
              downstream, result, statusLabel, observed, counted>>
metricVars == <<requestCount, requestDuration>>
lifeVars == <<mainPc, httpSrv, httpInflight, shutdownErr, grpcSrv, stopped, forced>>
clientVars == <<clientPc, clientReq, clientCall>>
vars == <<callVars, metricVars, lifeVars, clientVars>>

NoRequest == [ModelName |-> "", InputData |-> NoDoc]

\* the process is alive: main has neither returned nor called log.Fatalf
Running == mainPc \notin {"exited", "fatal"}

\* the state of the calls and the metrics right after construction
CallsInit ==
    /\ pc = [c \in Calls |-> "idle"]
    /\ stages = [c \in Calls |-> <<>>]
    /\ req = [c \in Calls |-> NoRequest]
    /\ input_data = [c \in Calls |-> NoInput]
    /\ ctxDone = [c \in Calls |-> FALSE]
    /\ outbound = [c \in Calls |-> "none"]
    /\ httpCalls = [c \in Calls |-> <<>>]
    /\ downstream = [c \in Calls |-> NoOutcome]
    /\ result = [c \in Calls |-> NoResult]
    /\ statusLabel = [c \in Calls |-> "ok"]
    /\ observed = [c \in Calls |-> 0]
    /\ counted = [c \in Calls |-> <<>>]
    /\ requestCount = [l \in Labels |-> 0]
    /\ requestDuration = 0

\* -------------------------------------------- the instrumented server: Predict
\* the gRPC runtime dispatches a call to the handler: start time taken,
\* statusLabel = "ok", the deferred metrics function registered
Accept(c, m, d) ==
    /\ Running
    /\ grpcSrv = "serving"
    /\ pc[c] = "idle"
    /\ pc' = [pc EXCEPT ![c] = "received"]
    /\ stages' = [stages EXCEPT ![c] = <<"Received">>]
    /\ req' = [req EXCEPT ![c] = [ModelName |-> m, InputData |-> d]]
    /\ statusLabel' = [statusLabel EXCEPT ![c] = "ok"]
    /\ UNCHANGED <<input_data, ctxDone, outbound, httpCalls, downstream, result,
                   observed, counted, metricVars, lifeVars>>
    /\ UNCHANGED clientVars

\* variant of Finish whose deferred function stores 1 in the counter, as a
\* read-modify-write that lost the concurrent updates would
Finish_SetNotInc(c, res, lbl, stage) ==
    /\ pc' = [pc EXCEPT ![c] = "done"]
    /\ stages' = [stages EXCEPT ![c] = stages[c] \o stage]
    /\ result' = [result EXCEPT ![c] = res]
    /\ statusLabel' = [statusLabel EXCEPT ![c] = lbl]
    /\ observed' = [observed EXCEPT ![c] = @ + 1]
    /\ counted' = [counted EXCEPT ![c] = Append(@, lbl)]
    /\ requestDuration' = requestDuration + 1
    /\ requestCount' = [requestCount EXCEPT ![lbl] = 1]

\* Predict returns res: the deferred function observes the latency once and
\* increments the counter of the label the handler last assigned
Finish(c, res, lbl, stage) ==
    /\ pc' = [pc EXCEPT ![c] = "done"]
    /\ stages' = [stages EXCEPT ![c] = stages[c] \o stage]
    /\ result' = [result EXCEPT ![c] = res]
    /\ statusLabel' = [statusLabel EXCEPT ![c] = lbl]
    /\ observed' = [observed EXCEPT ![c] = @ + 1]
    /\ counted' = [counted EXCEPT ![c] = Append(@, lbl)]
    /\ requestDuration' = requestDuration + 1
    /\ requestCount' = [requestCount EXCEPT ![lbl] = @ + 1]

\* variant of PredictValidate that forgets statusLabel = "empty-input"
PredictValidate_NoEmptyLabel(c) ==
    /\ Running
    /\ pc[c] = "received"
    /\ LET u == unmarshalFloats(req[c].InputData)
       IN  IF u.err
           THEN /\ Finish(c, Failure(PlainErr(InvalidArgument,
                               "input_data must be a JSON array of numbers")),
                          "bad-input", <<"Failed">>)
                /\ UNCHANGED input_data
           ELSE IF Len(u.slice.elems) = 0
           THEN /\ Finish(c, Failure(PlainErr(InvalidArgument,
                               "input data cannot be empty")),
                          statusLabel[c], <<"Failed">>)
                /\ UNCHANGED input_data
           ELSE /\ pc' = [pc EXCEPT ![c] = "validated"]
                /\ stages' = [stages EXCEPT ![c] = Append(@, "Validated")]
                /\ input_data' = [input_data EXCEPT
                                    ![c] = InputData(req[c].ModelName, u.slice)]
                /\ UNCHANGED <<result, statusLabel, observed, counted, metricVars>>
    /\ UNCHANGED <<req, ctxDone, outbound, httpCalls, downstream, lifeVars>>
    /\ UNCHANGED clientVars

\* variant of PredictValidate without the emptiness check
PredictValidate_SkipEmptyCheck(c) ==
    /\ Running
    /\ pc[c] = "received"
    /\ LET u == unmarshalFloats(req[c].InputData)
       IN  IF u.err
           THEN /\ Finish(c, Failure(PlainErr(InvalidArgument,
                               "input_data must be a JSON array of numbers")),
                          "bad-input", <<"Failed">>)
                /\ UNCHANGED input_data
           ELSE IF FALSE
           THEN /\ Finish(c, Failure(PlainErr(InvalidArgument,
                               "input data cannot be empty")),
                          "empty-input", <<"Failed">>)
                /\ UNCHANGED input_data
           ELSE /\ pc' = [pc EXCEPT ![c] = "validated"]
                /\ stages' = [stages EXCEPT ![c] = Append(@, "Validated")]
                /\ input_data' = [input_data EXCEPT
                                    ![c] = InputData(req[c].ModelName, u.slice)]
                /\ UNCHANGED <<result, statusLabel, observed, counted, metricVars>>
    /\ UNCHANGED <<req, ctxDone, outbound, httpCalls, downstream, lifeVars>>
    /\ UNCHANGED clientVars

\* variant of PredictValidate that also rejects an empty model name
PredictValidate_RejectEmptyName(c) ==
    /\ Running
    /\ pc[c] = "received"
    /\ LET u == unmarshalFloats(req[c].InputData)
       IN  IF u.err
           THEN /\ Finish(c, Failure(PlainErr(InvalidArgument,
                               "input_data must be a JSON array of numbers")),
                          "bad-input", <<"Failed">>)
                /\ UNCHANGED input_data
           ELSE IF Len(u.slice.elems) = 0 \/ req[c].ModelName = ""
           THEN /\ Finish(c, Failure(PlainErr(InvalidArgument,
                               "input data cannot be empty")),
                          "empty-input", <<"Failed">>)
                /\ UNCHANGED input_data
           ELSE /\ pc' = [pc EXCEPT ![c] = "validated"]
                /\ stages' = [stages EXCEPT ![c] = Append(@, "Validated")]
                /\ input_data' = [input_data EXCEPT
                                    ![c] = InputData(req[c].ModelName, u.slice)]
                /\ UNCHANGED <<result, statusLabel, observed, counted, metricVars>>
    /\ UNCHANGED <<req, ctxDone, outbound, httpCalls, downstream, lifeVars>>
    /\ UNCHANGED clientVars

\* Predict, from entry to the call of sendDataToAPI: decode, reject an
\* undecodable or empty vector, build the InputData
PredictValidate(c) ==
    /\ Running
    /\ pc[c] = "received"
    /\ LET u == unmarshalFloats(req[c].InputData)
       IN  IF u.err
           THEN /\ Finish(c, Failure(PlainErr(InvalidArgument,
                               "input_data must be a JSON array of numbers")),
                          "bad-input", <<"Failed">>)
                /\ UNCHANGED input_data
           ELSE IF Len(u.slice.elems) = 0
           THEN /\ Finish(c, Failure(PlainErr(InvalidArgument,
                               "input data cannot be empty")),
                          "empty-input", <<"Failed">>)
                /\ UNCHANGED input_data
           ELSE /\ pc' = [pc EXCEPT ![c] = "validated"]
                /\ stages' = [stages EXCEPT ![c] = Append(@, "Validated")]
                /\ input_data' = [input_data EXCEPT
                                    ![c] = InputData(req[c].ModelName, u.slice)]
                /\ UNCHANGED <<result, statusLabel, observed, counted, metricVars>>
    /\ UNCHANGED <<req, ctxDone, outbound, httpCalls, downstream, lifeVars>>
    /\ UNCHANGED clientVars

\* variant of sendDataToAPIDo that hands the POST to the client twice, as a
\* retry loop around httpClient.Do would
sendDataToAPIDo_Retry(c) ==
    /\ Running
    /\ pc[c] = "validated"
    /\ pc' = [pc EXCEPT ![c] = "forwarded"]
    /\ stages' = [stages EXCEPT ![c] = Append(@, "Forwarded")]
    /\ httpCalls' = [httpCalls EXCEPT
                       ![c] = @ \o <<marshalInputData(input_data[c]).doc,
                                     marshalInputData(input_data[c]).doc>>]
    /\ outbound' = [outbound EXCEPT ![c] = "pending"]
    /\ UNCHANGED <<req, input_data, ctxDone, downstream, result, statusLabel,
                   observed, counted, metricVars, lifeVars>>
    /\ UNCHANGED clientVars

\* sendDataToAPI up to httpClient.Do: the body is marshalled (it cannot fail
\* for finite floats), the request is built with the call's context (it
\* cannot fail for the constant URL), and the POST is handed to the client
sendDataToAPIDo(c) ==
    /\ Running
    /\ pc[c] = "validated"
    /\ pc' = [pc EXCEPT ![c] = "forwarded"]
    /\ stages' = [stages EXCEPT ![c] = Append(@, "Forwarded")]
    /\ httpCalls' = [httpCalls EXCEPT
                       ![c] = Append(@, marshalInputData(input_data[c]).doc)]
    /\ outbound' = [outbound EXCEPT ![c] = "pending"]
    /\ UNCHANGED <<req, input_data, ctxDone, downstream, result, statusLabel,
                   observed, counted, metricVars, lifeVars>>
    /\ UNCHANGED clientVars

\* variant of sendDataToAPI whose 4xx test excludes 400 itself
sendDataToAPI_OffByOne(o) ==
    IF o.kind = "doerr"
    THEN [err |-> StatusErr(Unavailable, "Failed to reach external API: %v",
                            "", "", o.cause, 0, NoDoc),
          resp |-> ZeroAPIResponse]
    ELSE IF o.kind = "readerr"
    THEN [err |-> StatusErr(Unavailable,
                            "failed to read response from external API: %v",
                            "", "", o.cause, 0, NoDoc),
          resp |-> ZeroAPIResponse]
    ELSE IF o.code < 200 \/ o.code >= 300
    THEN IF o.code > 400 /\ o.code < 500
         THEN [err |-> StatusErr(InvalidArgument, "API returned status %d: %s",
                                 "", "", "", o.code, o.body),
               resp |-> ZeroAPIResponse]
         ELSE [err |-> StatusErr(Internal, "API returned status %d: %s",
                                 "", "", "", o.code, o.body),
               resp |-> ZeroAPIResponse]
    ELSE IF unmarshalAPIResponse(o.body).err
    THEN [err |-> StatusErr(Internal, "Failed to parse external API response: %v",
                            "", "", "json", 0, NoDoc),
          resp |-> ZeroAPIResponse]
    ELSE [err |-> NoErr, resp |-> unmarshalAPIResponse(o.body).val]

\* sendDataToAPI from the return of httpClient.Do: the classification of the
\* exchange into a status error or a decoded APIResponse
sendDataToAPI(o) ==
    IF o.kind = "doerr"
    THEN [err |-> StatusErr(Unavailable, "Failed to reach external API: %v",
                            "", "", o.cause, 0, NoDoc),
          resp |-> ZeroAPIResponse]
    ELSE IF o.kind = "readerr"
    THEN [err |-> StatusErr(Unavailable,
                            "failed to read response from external API: %v",
                            "", "", o.cause, 0, NoDoc),
          resp |-> ZeroAPIResponse]
    ELSE IF o.code < 200 \/ o.code >= 300
    THEN IF o.code >= 400 /\ o.code < 500
         THEN [err |-> StatusErr(InvalidArgument, "API returned status %d: %s",
                                 "", "", "", o.code, o.body),
               resp |-> ZeroAPIResponse]
         ELSE [err |-> StatusErr(Internal, "API returned status %d: %s",
                                 "", "", "", o.code, o.body),
               resp |-> ZeroAPIResponse]
    ELSE IF unmarshalAPIResponse(o.body).err
    THEN [err |-> StatusErr(Internal, "Failed to parse external API response: %v",
                            "", "", "json", 0, NoDoc),
          resp |-> ZeroAPIResponse]
    ELSE [err |-> NoErr, resp |-> unmarshalAPIResponse(o.body).val]

\* variant of PredictReturn that copies apiResponse.ModelName, not
\* apiResponse.Status, into the reply's status
PredictReturn_ModelNameAsStatus(c, o) ==
    LET r == sendDataToAPI(o)
        out == marshalFloats(r.resp.Output)
    IN  IF r.err.code # OK
        THEN Finish(c, Failure(StatusErr(Unavailable,
                                  "failed to call external API: %v",
                                  r.err.code, r.err.text, r.err.cause,
                                  r.err.httpStatus, r.err.body)),
                    "api-error", <<"Failed">>)
        ELSE IF out.err
        THEN Finish(c, Failure(StatusErr(Internal, "failed to marshal output: %v",
                                  "", "", "json", 0, NoDoc)),
                    "internal-error", <<"Failed">>)
        ELSE Finish(c, Reply(out.doc, r.resp.ModelName), statusLabel[c],
                    <<"Translated", "Completed">>)

\* Predict, from the return of sendDataToAPI to its own return
PredictReturn(c, o) ==
    LET r == sendDataToAPI(o)
        out == marshalFloats(r.resp.Output)
    IN  IF r.err.code # OK
        THEN Finish(c, Failure(StatusErr(Unavailable,
                                  "failed to call external API: %v",
                                  r.err.code, r.err.text, r.err.cause,
                                  r.err.httpStatus, r.err.body)),
                    "api-error", <<"Failed">>)
        ELSE IF out.err
        THEN Finish(c, Failure(StatusErr(Internal, "failed to marshal output: %v",
                                  "", "", "json", 0, NoDoc)),
                    "internal-error", <<"Failed">>)
        ELSE Finish(c, Reply(out.doc, r.resp.Status), statusLabel[c],
                    <<"Translated", "Completed">>)

\* the downstream endpoint answers with a status code and a body
HTTPResponse(c, code, body) ==
    /\ Running
    /\ pc[c] = "forwarded"
    /\ outbound[c] = "pending"
    /\ outbound' = [outbound EXCEPT ![c] = "completed"]
    /\ downstream' = [downstream EXCEPT ![c] = Response(code, body)]
    /\ PredictReturn(c, Response(code, body))
    /\ UNCHANGED <<req, input_data, ctxDone, httpCalls, lifeVars>>
    /\ UNCHANGED clientVars

\* the endpoint cannot be reached (connect, TLS, reset): Do returns an error
HTTPTransportError(c) ==
    /\ Running
    /\ pc[c] = "forwarded"
    /\ outbound[c] = "pending"
    /\ outbound' = [outbound EXCEPT ![c] = "failed"]
    /\ downstream' = [downstream EXCEPT ![c] = DoError("transport")]
    /\ PredictReturn(c, DoError("transport"))
    /\ UNCHANGED <<req, input_data, ctxDone, httpCalls, lifeVars>>
    /\ UNCHANGED clientVars

\* the headers arrived but reading the body fails
HTTPBodyReadError(c, code) ==
    /\ Running
    /\ pc[c] = "forwarded"
    /\ outbound[c] = "pending"
    /\ outbound' = [outbound EXCEPT ![c] = "failed"]
    /\ downstream' = [downstream EXCEPT ![c] = ReadError(code, "transport")]
    /\ PredictReturn(c, ReadError(code, "transport"))
    /\ UNCHANGED <<req, input_data, ctxDone, httpCalls, lifeVars>>
    /\ UNCHANGED clientVars

\* variant of HTTPClientTimeout for an http.Client without Timeout
HTTPClientTimeout_None(c) ==
    /\ FALSE
    /\ UNCHANGED vars

\* http.Client{Timeout: 10s}: the client gives the exchange up
HTTPClientTimeout(c) ==
    /\ Running
    /\ pc[c] = "forwarded"
    /\ outbound[c] = "pending"
    /\ outbound' = [outbound EXCEPT ![c] = "aborted"]
    /\ downstream' = [downstream EXCEPT ![c] = DoError("Client.Timeout exceeded")]
    /\ PredictReturn(c, DoError("Client.Timeout exceeded"))
    /\ UNCHANGED <<req, input_data, ctxDone, httpCalls, lifeVars>>
    /\ UNCHANGED clientVars

\* variant of HTTPCtxAborted for a request built without the call's context
\* (http.NewRequest): cancellation never reaches the exchange
HTTPCtxAborted_Unbound(c) ==
    /\ FALSE
    /\ UNCHANGED vars

\* the request was built with the call's context: once the context is done
\* the transport aborts the exchange and Do returns the context's error
HTTPCtxAborted(c) ==
    /\ Running
    /\ pc[c] = "forwarded"
    /\ outbound[c] = "pending"
    /\ ctxDone[c]
    /\ outbound' = [outbound EXCEPT ![c] = "aborted"]
    /\ downstream' = [downstream EXCEPT ![c] = DoError("context canceled")]
    /\ PredictReturn(c, DoError("context canceled"))
    /\ UNCHANGED <<req, input_data, ctxDone, httpCalls, lifeVars>>
    /\ UNCHANGED clientVars

\* the RPC caller cancels the call (or its deadline passes) while it is in
\* flight: the handler's context becomes done
CallerCancel(c) ==
    /\ Running
    /\ pc[c] \in {"received", "validated", "forwarded"}
    /\ ~ctxDone[c]
    /\ ctxDone' = [ctxDone EXCEPT ![c] = TRUE]
    /\ UNCHANGED <<pc, stages, req, input_data, outbound, httpCalls, downstream,
                   result, statusLabel, observed, counted, metricVars, lifeVars>>
    /\ UNCHANGED clientVars

\* ------------------------------------------------------- the client program
\* MakePrediction(client, req) of the client program, as its tests describe
\* it: the call is made under a context with a timeout, the request is
\* passed on as it is, an error ends the program through log.Fatalf
PredictTimeout == 10      \* seconds of the context's timeout

NoClientCall == [req |-> NoRequest, hasDeadline |-> FALSE, timeout |-> 0]

ClientIdle ==
    /\ clientPc = "idle"
    /\ clientReq = NoRequest
    /\ clientCall = NoClientCall

serverVars == <<callVars, metricVars, lifeVars>>

\* variant of MakePrediction that calls client.Predict under
\* context.Background(), which has no deadline
MakePrediction_Background(m, d) ==
    /\ clientPc = "idle"
    /\ clientPc' = "calling"
    /\ clientReq' = [ModelName |-> m, InputData |-> d]
    /\ clientCall' = [req |-> [ModelName |-> m, InputData |-> d],
                      hasDeadline |-> FALSE, timeout |-> 0]
    /\ UNCHANGED serverVars

\* MakePrediction up to the invocation of client.Predict(ctx, req)
MakePrediction(m, d) ==
    /\ clientPc = "idle"
    /\ clientPc' = "calling"
    /\ clientReq' = [ModelName |-> m, InputData |-> d]
    /\ clientCall' = [req |-> [ModelName |-> m, InputData |-> d],
                      hasDeadline |-> TRUE, timeout |-> PredictTimeout]
    /\ UNCHANGED serverVars

\* client.Predict returns a response: MakePrediction logs it and returns
MakePredictionReturn ==
    /\ clientPc = "calling"
    /\ clientPc' = "returned"
    /\ UNCHANGED <<clientReq, clientCall, serverVars>>

\* client.Predict returns an error (the deadline included): log.Fatalf
MakePredictionFatal ==
    /\ clientPc = "calling"
    /\ clientPc' = "fatal"
    /\ UNCHANGED <<clientReq, clientCall, serverVars>>

\* ----------------------------------------------------- the data specification
\* one call of the instrumented server in the serving state, over a rich
\* set of request payloads and downstream responses
SeqsUpTo(S, n) == UNION {[1..k -> S] : k \in 0..n}

ElemDocs == {Num("1.0"), Num("0.9"), Null}
ArrayDocs == {Arr(es) : es \in SeqsUpTo(ElemDocs, MaxLen)}
                \cup {Arr(<<Num("1e999")>>), Arr(<<Num("1.0"), Str("x")>>)}
InputDocs == {Bad, Null, Num("1.0"), Str("x"), Obj(Absent, Absent, Absent)}
                \cup ArrayDocs
ModelNames == {"", "m"}
SuccessCodes == {200, 299}
FailureCodes == {199, 300, 399, 400, 404, 499, 500, 503}
StatusCodes == SuccessCodes \cup FailureCodes
Bodies == {Bad, Null, Arr(<<>>), Obj(Absent, Arr(<<Num("0.9")>>), Str("ok"))}
             \cup {Obj(Str("m"), o, st) :
                      o \in {Absent, Null, Str("x")} \cup ArrayDocs,
                      st \in {Absent, Str("ok"), Str(""), Num("1.0")}}
ErrorBodies == {Bad, Obj(Str("m"), Arr(<<Num("1.0")>>), Str("ok"))}
Responses == {Response(code, body) : code \in SuccessCodes, body \in Bodies}
                \cup {Response(code, body) : code \in FailureCodes, body \in ErrorBodies}

\* both listeners serving, main waiting for the signal, no call yet
Serving ==
    /\ mainPc = "waitSignal"
    /\ httpSrv = "serving"
    /\ httpInflight = 0
    /\ shutdownErr = FALSE
    /\ grpcSrv = "serving"
    /\ stopped = FALSE
    /\ forced = FALSE

DataInit == CallsInit /\ Serving /\ ClientIdle

DataNext ==
    \/ \E m \in ModelNames, d \in InputDocs : Accept(1, m, d)
    \/ PredictValidate(1)
    \/ sendDataToAPIDo(1)
    \/ \E r \in Responses : HTTPResponse(1, r.code, r.body)
    \/ HTTPTransportError(1)
    \/ \E code \in StatusCodes : HTTPBodyReadError(1, code)
    \/ HTTPClientTimeout(1)
    \/ HTTPCtxAborted(1)
    \/ CallerCancel(1)

DataSpec == DataInit /\ [][DataNext]_vars

\* ------------------------------------------- the server of cmd/server/main.go
\* the handler is dispatched; this server keeps no label and no metrics
CmdAccept(c, m, d) ==
    /\ Running
    /\ grpcSrv = "serving"
    /\ pc[c] = "idle"
    /\ pc' = [pc EXCEPT ![c] = "received"]
    /\ stages' = [stages EXCEPT ![c] = <<"Received">>]
    /\ req' = [req EXCEPT ![c] = [ModelName |-> m, InputData |-> d]]
    /\ UNCHANGED <<input_data, ctxDone, outbound, httpCalls, downstream, result,
                   statusLabel, observed, counted, metricVars, lifeVars>>
    /\ UNCHANGED clientVars

\* Predict returns res; nothing is deferred
CmdFinish(c, res, stage) ==
    /\ pc' = [pc EXCEPT ![c] = "done"]
    /\ stages' = [stages EXCEPT ![c] = stages[c] \o stage]
    /\ result' = [result EXCEPT ![c] = res]
    /\ UNCHANGED <<statusLabel, observed, counted, metricVars>>

\* Predict up to the call of sendDataToAPI: the only check is the decode; the
\* emptiness check is commented out
CmdPredictValidate(c) ==
    /\ Running
    /\ pc[c] = "received"
    /\ LET u == unmarshalFloats(req[c].InputData)
       IN  IF u.err
           THEN /\ CmdFinish(c, Failure(PlainErr(InvalidArgument,
                                  "input_data must be a JSON array of numbers")),
                             <<"Failed">>)
                /\ UNCHANGED input_data
           ELSE /\ pc' = [pc EXCEPT ![c] = "validated"]
                /\ stages' = [stages EXCEPT ![c] = Append(@, "Validated")]
                /\ input_data' = [input_data EXCEPT
                                    ![c] = InputData(req[c].ModelName, u.slice)]
                /\ UNCHANGED <<result, statusLabel, observed, counted, metricVars>>
    /\ UNCHANGED <<req, ctxDone, outbound, httpCalls, downstream, lifeVars>>
    /\ UNCHANGED clientVars

\* sendDataToAPI up to httpClient.Do
CmdSendDataToAPIDo(c) ==
    /\ Running
    /\ pc[c] = "validated"
    /\ pc' = [pc EXCEPT ![c] = "forwarded"]
    /\ stages' = [stages EXCEPT ![c] = Append(@, "Forwarded")]
    /\ httpCalls' = [httpCalls EXCEPT
                       ![c] = Append(@, marshalInputData(input_data[c]).doc)]
    /\ outbound' = [outbound EXCEPT ![c] = "pending"]
    /\ UNCHANGED <<req, input_data, ctxDone, downstream, result, statusLabel,
                   observed, counted, metricVars, lifeVars>>
    /\ UNCHANGED clientVars

\* sendDataToAPI from the return of httpClient.Do; a status outside
\* [200,300) is a plain fmt.Errorf error, which carries no gRPC code
CmdSendDataToAPI(o) ==
    IF o.kind = "doerr"
    THEN [err |-> PlainErr(Unavailable, "Failed to reach external API"),
          resp |-> ZeroAPIResponse]
    ELSE IF o.kind = "readerr"
    THEN [err |-> PlainErr(Unavailable, "failed to read response from external API"),
          resp |-> ZeroAPIResponse]
    ELSE IF o.code < 200 \/ o.code >= 300
    THEN [err |-> StatusErr("Unknown", "API returned status %d: %s",
                            "", "", "", o.code, o.body),
          resp |-> ZeroAPIResponse]
    ELSE IF unmarshalAPIResponse(o.body).err
    THEN [err |-> PlainErr(Internal, "Failed to parse external API response"),
          resp |-> ZeroAPIResponse]
    ELSE [err |-> NoErr, resp |-> unmarshalAPIResponse(o.body).val]

\* Predict from the return of sendDataToAPI to its own return
CmdPredictReturn(c, o) ==
    LET r == CmdSendDataToAPI(o)
        out == marshalFloats(r.resp.Output)
    IN  IF r.err.code # OK
        THEN CmdFinish(c, Failure(PlainErr(Unavailable, "failed to call external API")),
                       <<"Failed">>)
        ELSE IF out.err
        THEN CmdFinish(c, Failure(PlainErr(Internal, "output empty")), <<"Failed">>)
        ELSE CmdFinish(c, Reply(out.doc, r.resp.Status), <<"Translated", "Completed">>)

\* the outbound exchange ends with outcome o (a response, a transport or
\* read failure, the client timeout, or the abort of a cancelled context)
CmdHTTPDone(c, o) ==
    /\ Running
    /\ pc[c] = "forwarded"
    /\ outbound[c] = "pending"
    /\ o.cause = "context canceled" => ctxDone[c]
    /\ outbound' = [outbound EXCEPT ![c] =
            IF o.kind = "response" THEN "completed"
            ELSE IF o.cause = "transport" THEN "failed" ELSE "aborted"]
    /\ downstream' = [downstream EXCEPT ![c] = o]
    /\ CmdPredictReturn(c, o)
    /\ UNCHANGED <<req, input_data, ctxDone, httpCalls, lifeVars>>
    /\ UNCHANGED clientVars

Outcomes ==
    Responses
    \cup {DoError(x) : x \in {"transport", "Client.Timeout exceeded", "context canceled"}}
    \cup {ReadError(code, "transport") : code \in StatusCodes}

\* main of cmd/server/main.go is inside s.Serve(lis): one listener, no
\* metrics surface, no signal handling
CmdServing ==
    /\ mainPc = "serve"
    /\ httpSrv = "new"
    /\ httpInflight = 0
    /\ shutdownErr = FALSE
    /\ grpcSrv = "serving"
    /\ stopped = FALSE
    /\ forced = FALSE

CmdInit == CallsInit /\ CmdServing /\ ClientIdle

CmdNext ==
    \/ \E m \in ModelNames, d \in InputDocs : CmdAccept(1, m, d)
    \/ CmdPredictValidate(1)
    \/ CmdSendDataToAPIDo(1)
    \/ \E o \in Outcomes : CmdHTTPDone(1, o)
    \/ CallerCancel(1)

CmdSpec == CmdInit /\ [][CmdNext]_vars

\* ------------------------------------- the instrumented server: main, shutdown
InFlight(c) == pc[c] \in {"received", "validated", "forwarded"}

\* net.Listen succeeds; main builds both servers, starts the two goroutines,
\* registers for the signals and blocks on <-stop
MainListen ==
    /\ mainPc = "start"
    /\ mainPc' = "waitSignal"
    /\ httpSrv' = "spawned"
    /\ grpcSrv' = "spawned"
    /\ UNCHANGED <<callVars, metricVars, httpInflight, shutdownErr, stopped, forced>>
    /\ UNCHANGED clientVars

\* net.Listen fails: log.Fatalf
MainListenFail ==
    /\ mainPc = "start"
    /\ mainPc' = "fatal"
    /\ UNCHANGED <<callVars, metricVars, httpSrv, httpInflight, shutdownErr,
                   grpcSrv, stopped, forced>>
    /\ UNCHANGED clientVars

\* the HTTP goroutine: ListenAndServe binds :9090 and serves
HTTPListenAndServe ==
    /\ Running
    /\ httpSrv = "spawned"
    /\ httpSrv' = "serving"
    /\ UNCHANGED <<callVars, metricVars, mainPc, httpInflight, shutdownErr,
                   grpcSrv, stopped, forced>>
    /\ UNCHANGED clientVars

\* the HTTP goroutine: ListenAndServe fails to bind: log.Fatalf
HTTPListenFail ==
    /\ Running
    /\ httpSrv = "spawned"
    /\ mainPc' = "fatal"
    /\ UNCHANGED <<callVars, metricVars, httpSrv, httpInflight, shutdownErr,
                   grpcSrv, stopped, forced>>
    /\ UNCHANGED clientVars

\* the gRPC goroutine: Serve(lis) starts accepting calls
GRPCServe ==
    /\ Running
    /\ grpcSrv = "spawned"
    /\ grpcSrv' = "serving"
    /\ UNCHANGED <<callVars, metricVars, mainPc, httpSrv, httpInflight,
                   shutdownErr, stopped, forced>>
    /\ UNCHANGED clientVars

\* the gRPC goroutine reaches Serve only after the server was stopped: Serve
\* returns ErrServerStopped and the goroutine calls log.Fatalf
GRPCServeFail ==
    /\ Running
    /\ grpcSrv = "stoppedEarly"
    /\ mainPc' = "fatal"
    /\ UNCHANGED <<callVars, metricVars, httpSrv, httpInflight, shutdownErr,
                   grpcSrv, stopped, forced>>
    /\ UNCHANGED clientVars

\* a /metrics or /health request is accepted
HTTPRequestBegin ==
    /\ Running
    /\ httpSrv = "serving"
    /\ httpInflight < MaxHTTPReq
    /\ httpInflight' = httpInflight + 1
    /\ UNCHANGED <<callVars, metricVars, mainPc, httpSrv, shutdownErr, grpcSrv,
                   stopped, forced>>
    /\ UNCHANGED clientVars

\* a /metrics or /health request is answered
HTTPRequestEnd ==
    /\ Running
    /\ httpInflight > 0
    /\ httpInflight' = httpInflight - 1
    /\ UNCHANGED <<callVars, metricVars, mainPc, httpSrv, shutdownErr, grpcSrv,
                   stopped, forced>>
    /\ UNCHANGED clientVars

\* <-stop delivers SIGINT or SIGTERM; main calls httpSrv.Shutdown(ctx), which
\* closes the HTTP listener and then waits for the connections to go idle
Signal ==
    /\ mainPc = "waitSignal"
    /\ mainPc' = "httpShutdown"
    /\ httpSrv' = "closed"
    /\ UNCHANGED <<callVars, metricVars, httpInflight, shutdownErr, grpcSrv,
                   stopped, forced>>
    /\ UNCHANGED clientVars

\* httpSrv.Shutdown returns nil: no request is in flight
HTTPShutdownDone ==
    /\ mainPc = "httpShutdown"
    /\ httpInflight = 0
    /\ mainPc' = "stopGRPC"
    /\ UNCHANGED <<callVars, metricVars, httpSrv, httpInflight, shutdownErr,
                   grpcSrv, stopped, forced>>
    /\ UNCHANGED clientVars

\* the 10s context of Shutdown expires while a request is in flight:
\* Shutdown returns the context's error, which main logs; the connections
\* in use are left as they are
HTTPShutdownTimeout ==
    /\ mainPc = "httpShutdown"
    /\ httpInflight > 0
    /\ mainPc' = "stopGRPC"
    /\ shutdownErr' = TRUE
    /\ UNCHANGED <<callVars, metricVars, httpSrv, httpInflight, grpcSrv, stopped,
                   forced>>
    /\ UNCHANGED clientVars

\* main starts the goroutine that calls grpcServer.GracefulStop() and enters
\* the select; GracefulStop closes the listener and waits for the calls
GracefulStopStart ==
    /\ mainPc = "stopGRPC"
    /\ mainPc' = "select"
    /\ grpcSrv' = IF grpcSrv = "serving" THEN "draining" ELSE "stoppedEarly"
    /\ UNCHANGED <<callVars, metricVars, httpSrv, httpInflight, shutdownErr,
                   stopped, forced>>
    /\ UNCHANGED clientVars

\* GracefulStop returns: no call is in flight; the goroutine closes `stopped`
GracefulStopDone ==
    /\ Running
    /\ grpcSrv \in {"draining", "stoppedEarly", "stopped"}
    /\ ~stopped
    /\ grpcSrv = "draining" => \A c \in Calls : ~InFlight(c)
    /\ grpcSrv' = IF grpcSrv = "draining" THEN "stopped" ELSE grpcSrv
    /\ stopped' = TRUE
    /\ UNCHANGED <<callVars, metricVars, mainPc, httpSrv, httpInflight,
                   shutdownErr, forced>>
    /\ UNCHANGED clientVars

\* select: case <-stopped
MainSelectStopped ==
    /\ mainPc = "select"
    /\ stopped
    /\ mainPc' = "complete"
    /\ UNCHANGED <<callVars, metricVars, httpSrv, httpInflight, shutdownErr,
                   grpcSrv, stopped, forced>>
    /\ UNCHANGED clientVars

\* variant of MainSelectTimeout that logs the timeout and goes on without
\* calling grpcServer.Stop()
MainSelectTimeout_NoStop ==
    /\ mainPc = "select"
    /\ mainPc' = "complete"
    /\ UNCHANGED <<callVars, metricVars, httpSrv, httpInflight, shutdownErr,
                   grpcSrv, stopped, forced>>
    /\ UNCHANGED clientVars

\* variant of MainSelectTimeout for a select without the time.After case
MainSelectTimeout_Never ==
    /\ FALSE
    /\ UNCHANGED vars

\* select: case <-time.After(10s): grpcServer.Stop() closes the listener and
\* every connection, which cancels the context of every call in flight
MainSelectTimeout ==
    /\ mainPc = "select"
    /\ mainPc' = "complete"
    /\ grpcSrv' = IF grpcSrv = "stoppedEarly" THEN grpcSrv ELSE "stopped"
    /\ forced' = TRUE
    /\ ctxDone' = [c \in Calls |-> ctxDone[c] \/ InFlight(c)]
    /\ UNCHANGED <<pc, stages, req, input_data, outbound, httpCalls, downstream,
                   result, statusLabel, observed, counted, metricVars, httpSrv,
                   httpInflight, shutdownErr, stopped>>
    /\ UNCHANGED clientVars

\* "Shutdown complete" is logged and main returns: the process exits and
\* every goroutine ends with it
MainExit ==
    /\ mainPc = "complete"
    /\ mainPc' = "exited"
    /\ UNCHANGED <<callVars, metricVars, httpSrv, httpInflight, shutdownErr,
                   grpcSrv, stopped, forced>>
    /\ UNCHANGED clientVars

\* ---------------------------------------------------- the system specification
\* the whole instrumented server from the start of main, NumCalls concurrent
\* calls, a small set of payloads and responses
SysInputs == {Bad, Arr(<<>>), Arr(<<Num("1.0")>>)}
SysModelNames == {"m"}
SysResponses == {Response(200, Obj(Str("m"), Arr(<<Num("0.9")>>), Str("ok"))),
                 Response(404, Bad), Response(503, Bad)}

Init ==
    /\ CallsInit
    /\ mainPc = "start"
    /\ httpSrv = "new"
    /\ httpInflight = 0
    /\ shutdownErr = FALSE
    /\ grpcSrv = "new"
    /\ stopped = FALSE
    /\ forced = FALSE
    /\ ClientIdle

CallNext(c) ==
    \/ \E m \in SysModelNames, d \in SysInputs : Accept(c, m, d)
    \/ PredictValidate(c)
    \/ sendDataToAPIDo(c)
    \/ \E r \in SysResponses : HTTPResponse(c, r.code, r.body)
    \/ HTTPTransportError(c)
    \/ HTTPBodyReadError(c, 200)
    \/ HTTPClientTimeout(c)
    \/ HTTPCtxAborted(c)
    \/ CallerCancel(c)

MainNext ==
    \/ MainListen
    \/ MainListenFail
    \/ HTTPListenAndServe
    \/ HTTPListenFail
    \/ GRPCServe
    \/ GRPCServeFail
    \/ HTTPRequestBegin
    \/ HTTPRequestEnd
    \/ Signal
    \/ HTTPShutdownDone
    \/ HTTPShutdownTimeout
    \/ GracefulStopStart
    \/ GracefulStopDone
    \/ MainSelectStopped
    \/ MainSelectTimeout
    \/ MainExit

Next == MainNext \/ \E c \in Calls : CallNext(c)

Spec == Init /\ [][Next]_vars

\* --------------------------------------------------- the pair specification
\* NumCalls concurrent calls of the instrumented server in the serving
\* state; payloads and responses are chosen so that two calls can differ in
\* the model name only, or in the downstream body only
PairInputs == {Bad, Arr(<<>>), Arr(<<Num("1.0")>>)}
PairResponses ==
    {Response(200, Obj(Str("m"), Arr(<<Num("0.9")>>), Str("ok"))), Response(200, Bad)}
       \cup {Response(code, body) : code \in {404, 503}, body \in ErrorBodies}

PairInit == CallsInit /\ Serving /\ ClientIdle

PairCallNext(c) ==
    \/ \E m \in ModelNames, d \in PairInputs : Accept(c, m, d)
    \/ PredictValidate(c)
    \/ sendDataToAPIDo(c)
    \/ \E r \in PairResponses : HTTPResponse(c, r.code, r.body)
    \/ HTTPTransportError(c)

PairNext == \E c \in Calls : PairCallNext(c)

PairSpec == PairInit /\ [][PairNext]_vars

\* ------------------------------------------------- the client specification
\* the client program alone; the server side does not move
ClientModelNames == {"", "m", "test-model"}

\* no server process is part of the client program's run
ServerAbsent ==
    /\ mainPc = "start"
    /\ httpSrv = "new"
    /\ httpInflight = 0
    /\ shutdownErr = FALSE
    /\ grpcSrv = "new"
    /\ stopped = FALSE
    /\ forced = FALSE

ClientInit == CallsInit /\ ServerAbsent /\ ClientIdle

ClientNext ==
    \/ \E m \in ClientModelNames, d \in InputDocs : MakePrediction(m, d)
    \/ MakePredictionReturn
    \/ MakePredictionFatal

ClientSpec == ClientInit /\ [][ClientNext]_vars

\* --------------------------------------------------- fairness specifications
\* main's own steps and its timers always come; nothing is assumed about
\* the calls or the downstream endpoint
LiveSpec ==
    /\ Spec
    /\ WF_vars(HTTPShutdownDone)
    /\ WF_vars(HTTPShutdownTimeout)
    /\ WF_vars(GracefulStopStart)
    /\ WF_vars(GracefulStopDone)
    /\ WF_vars(MainSelectStopped)
    /\ WF_vars(MainSelectTimeout)
    /\ WF_vars(MainExit)

\* the transport watches the request's context: a pending exchange whose
\* context is done is aborted; nothing is assumed about the endpoint
DataLiveSpec == DataSpec /\ WF_vars(HTTPCtxAborted(1))

\* http.Client{Timeout: 10s} always fires on a pending exchange and the
\* handler's own steps always come; nothing is assumed about the endpoint
\* or the caller
TimeoutLiveSpec ==
    /\ DataSpec
    /\ WF_vars(PredictValidate(1))
    /\ WF_vars(sendDataToAPIDo(1))
    /\ WF_vars(HTTPClientTimeout(1))

\* ------------------------------------------------------------------- claims
\* the inbound payload is rejected by the decoder, or decodes to length 0
Rejectable(d) ==
    \/ unmarshalFloats(d).err
    \/ Len(unmarshalFloats(d).slice.elems) = 0

\* C1: a Predict call whose inputData is not decodable as a JSON array of
\* numbers, or decodes to an empty vector ([] and null included), returns
\* InvalidArgument and issues no downstream HTTP call.
C1_InvalidInputRejected ==
    \A c \in Calls :
        pc[c] # "idle" /\ Rejectable(req[c].InputData) =>
            /\ httpCalls[c] = <<>>
            /\ pc[c] \in {"received", "done"}
            /\ pc[c] = "done" =>
                  result[c].kind = "error" /\ result[c].err.code = InvalidArgument

\* the call has returned after a downstream response with status code st
AnsweredWith(c, st) ==
    /\ pc[c] = "done"
    /\ downstream[c].kind = "response"
    /\ downstream[c].code = st

\* C2: a downstream status in [400,500) makes Predict return InvalidArgument;
\* any other status outside [200,300) makes Predict return Internal.
C2_StatusMapping ==
    \A c \in Calls : \A st \in StatusCodes :
        AnsweredWith(c, st) /\ (st < 200 \/ st >= 300) =>
            /\ result[c].kind = "error"
            /\ result[c].err.code =
                  IF st >= 400 /\ st < 500 THEN InvalidArgument ELSE Internal

\* C3: a downstream response with a status in [200,300) and a decodable body
\* makes Predict return a reply, without error, whose outputData is
\* JSON-equal to the body's output array (and is null when the body has no
\* output vector) and whose status is the body's status string, verbatim.
C3_SuccessTranslation ==
    \A c \in Calls : \A st \in SuccessCodes :
        LET body == downstream[c].body
        IN  AnsweredWith(c, st) /\ ~unmarshalAPIResponse(body).err =>
              /\ result[c].kind = "reply"
              /\ result[c].err.code = OK
              /\ body.k = "obj" /\ IsNumberArray(body.output) =>
                    JSONEq(result[c].OutputData, body.output)
              /\ body.k = "obj" /\ body.output.k \in {"absent", "null"} =>
                    result[c].OutputData = Null
              /\ body.k = "obj" /\ body.status.k = "str" =>
                    result[c].Status = body.status.s

\* C3 witness: a 2xx answer whose output literal 1.0 comes back as 1
C3_Witness ==
    \E c \in Calls :
        /\ AnsweredWith(c, 200)
        /\ downstream[c].body = Obj(Str("m"), Arr(<<Num("1.0"), Num("0.9")>>), Str("ok"))
        /\ result[c] = Reply(Arr(<<Num("1"), Num("0.9")>>), "ok")

\* C4: a Predict call with valid (decodable, non-empty) input issues exactly
\* one downstream HTTP call over its whole life, whatever the outcome, and
\* the call carries the request's model name and input vector.
C4_ExactlyOneCall ==
    \A c \in Calls :
        pc[c] # "idle" /\ ~Rejectable(req[c].InputData) =>
            /\ Len(httpCalls[c]) <= 1
            /\ pc[c] \in {"forwarded", "done"} =>
                  /\ Len(httpCalls[c]) = 1
                  /\ httpCalls[c][1].model_name = Str(req[c].ModelName)
                  /\ unmarshalFloats(httpCalls[c][1].input).slice
                        = unmarshalFloats(req[c].InputData).slice
                  /\ IsNumberArray(req[c].InputData) =>
                        JSONEq(httpCalls[c][1].input, req[c].InputData)

\* C4 witness: a call with input [1.0, 0.9] returned after a failed exchange
\* and exactly one POST carrying [1, 0.9] was issued
C4_Witness ==
    \E c \in Calls :
        /\ pc[c] = "done"
        /\ req[c] = [ModelName |-> "m", InputData |-> Arr(<<Num("1.0"), Num("0.9")>>)]
        /\ downstream[c].kind = "doerr"
        /\ httpCalls[c] = <<ReqDoc(Str("m"), Arr(<<Num("1"), Num("0.9")>>))>>

\* C5: every Predict invocation has recorded exactly one latency observation
\* and exactly one outcome-counter increment by the time it returns.
C5_OneObservationPerCall ==
    \A c \in Calls :
        pc[c] = "done" => observed[c] = 1 /\ Len(counted[c]) = 1

\* C6: when the downstream call is pending and the caller's context is
\* cancelled, Predict eventually returns; a call ended by the cancellation
\* returns an error that carries the context's error; and once Predict has
\* returned the outbound call is no longer pending.
C6_CancelAborts ==
    /\ \A c \in {1} : (pc[c] = "forwarded" /\ ctxDone[c]) ~> (pc[c] = "done")
    /\ [](\A c \in {1} :
            pc[c] = "done" =>
               /\ outbound[c] # "pending"
               /\ downstream[c].cause = "context canceled" =>
                     /\ outbound[c] = "aborted"
                     /\ result[c].kind = "error"
                     /\ result[c].err.cause = "context canceled")

\* C6 witness: a cancelled call whose exchange was aborted has returned
C6_Witness ==
    /\ pc[1] = "done"
    /\ ctxDone[1]
    /\ downstream[1] = DoError("context canceled")
    /\ outbound[1] = "aborted"
    /\ result[1].kind = "error"

SignalReceived == mainPc \in {"httpShutdown", "stopGRPC", "select", "complete", "exited"}

\* C7: once the termination signal has been received the RPC listener
\* accepts no new Predict call, also while the shutdown of the
\* metrics/health listener is still in progress.
C7_NoAcceptAfterSignal ==
    [][SignalReceived => \A c \in Calls : pc[c] = "idle" => pc'[c] = "idle"]_vars

\* C8: the shutdown sequence is complete only after both listeners have
\* stopped: the HTTP listener is closed and Shutdown has returned, and the
\* gRPC server has finished its graceful stop or has been stopped by force;
\* neither listener is serving then.
C8_CompleteAfterBothStopped ==
    mainPc \in {"complete", "exited"} =>
        /\ httpSrv = "closed"
        /\ grpcSrv \in {"stopped", "stoppedEarly"}
        /\ stopped \/ forced

\* C8 witness: shutdown is complete after a forced stop of the gRPC server
\* and a timed-out shutdown of the HTTP server
C8_Witness ==
    /\ mainPc = "complete"
    /\ forced
    /\ shutdownErr
    /\ grpcSrv = "stopped"
    /\ \E c \in Calls : InFlight(c)

Terminated == mainPc \in {"complete", "exited", "fatal"}

\* C9: after the termination signal the shutdown eventually completes, also
\* when a call in flight never finishes on its own; when the grace period
\* elapses every call still in flight is terminated by force (its context
\* is cancelled), and a graceful stop that completes found no call in flight.
C9_ShutdownCompletes ==
    /\ (mainPc = "httpShutdown") ~> Terminated
    /\ (mainPc = "httpShutdown" /\ \E c \in Calls : InFlight(c))
          ~> (mainPc \in {"complete", "exited"})
    /\ [](forced => \A c \in Calls : InFlight(c) => ctxDone[c])
    /\ [](mainPc = "complete" /\ ~forced => \A c \in Calls : ~InFlight(c))

\* C9 witness: the grace period elapsed with a call in flight, whose context
\* is now cancelled, and the shutdown is complete
C9_Witness ==
    /\ mainPc = "complete"
    /\ forced
    /\ ~stopped
    /\ \E c \in Calls : pc[c] = "forwarded" /\ ctxDone[c]

\* C10: no /metrics or /health request is still being served when the
\* shutdown completes: the requests in flight after the grace period have
\* been closed by force.
C10_NoHTTPRequestAtCompletion ==
    mainPc = "complete" => httpInflight = 0

\* the process was aborted by a listener that could not start: net.Listen
\* failed in main, or ListenAndServe failed to bind in its goroutine
StartupFailed == mainPc = "fatal" /\ httpSrv \in {"new", "spawned"}

\* C11: a startup (bind) failure of either listener aborts the process
\* before any Predict call is served; no call was accepted by one listener
\* when the other fails to start.
C11_NoServingBeforeStartupFailure ==
    StartupFailed => \A c \in Calls : pc[c] = "idle"

\* the calls c1 and c2 failed alike: same request, same kind of downstream
\* outcome, same status code; only the downstream body may differ
FailedAlike(c1, c2) ==
    /\ pc[c1] = "done" /\ pc[c2] = "done"
    /\ result[c1].kind = "error" /\ result[c2].kind = "error"
    /\ req[c1] = req[c2]
    /\ downstream[c1].kind = downstream[c2].kind
    /\ downstream[c1].cause = downstream[c2].cause
    /\ downstream[c1].code = downstream[c2].code

\* C12: the caller-visible error of a failed Predict call does not contain
\* the raw downstream body: two calls that differ only in the body the
\* endpoint returned get the same error code and message.
C12_NoBodyInError ==
    \A c1, c2 \in Calls :
        FailedAlike(c1, c2) => result[c1].err = result[c2].err

\* C13: a downstream answer with a status in [200,300) and a body that
\* cannot be decoded makes Predict return Internal, and the call is counted
\* under the label api-error.
C13_UndecodableBodyInternal ==
    \A c \in Calls : \A st \in SuccessCodes :
        AnsweredWith(c, st) /\ unmarshalAPIResponse(downstream[c].body).err =>
            /\ result[c].kind = "error"
            /\ result[c].err.code = Internal
            /\ counted[c] = <<"api-error">>

\* C14: MakePrediction invokes client.Predict under a context that carries
\* a deadline about 10 seconds ahead, with the model name and the input data
\* of the request it was given, unchanged.
C14_ClientCallHasDeadline ==
    clientPc # "idle" =>
        /\ clientCall.hasDeadline
        /\ clientCall.timeout >= 9 /\ clientCall.timeout <= 11
        /\ clientCall.req.ModelName = clientReq.ModelName
        /\ clientCall.req.InputData = clientReq.InputData

\* C14 witness: MakePrediction has returned after a call for "test-model"
C14_Witness ==
    /\ clientPc = "returned"
    /\ clientReq = [ModelName |-> "test-model", InputData |-> Bad]
    /\ clientCall.req = clientReq

\* a response body of exactly the documented shape
StrictlyShaped(d) ==
    /\ d.k = "obj"
    /\ d.model_name.k = "str"
    /\ IsNumberArray(d.output)
    /\ d.status.k = "str"

\* a response body that is not JSON, is not an object, or has a member of
\* the wrong type
Malformed(d) ==
    \/ d.k \notin {"obj", "null"}
    \/ /\ d.k = "obj"
       /\ \/ d.output.k \notin {"arr", "absent", "null"}
          \/ d.status.k \notin {"str", "absent", "null"}
          \/ /\ d.output.k = "arr"
             /\ \E i \in 1..Len(d.output.elems) :
                   \/ d.output.elems[i].k \notin {"num", "null"}
                   \/ /\ d.output.elems[i].k = "num"
                      /\ ~ParseFloat(d.output.elems[i].lit).ok

\* the reference classifier: the codes allowed for a downstream condition
\* (a body-read failure and a body that is lenient JSON are left open)
ReferenceCodes(o) ==
    IF o.kind = "doerr" THEN {Unavailable}
    ELSE IF o.kind = "readerr" THEN {Unavailable, Internal}
    ELSE IF o.code >= 400 /\ o.code < 500 THEN {InvalidArgument}
    ELSE IF o.code < 200 \/ o.code >= 300 THEN {Internal}
    ELSE IF Malformed(o.body) THEN {Internal}
    ELSE IF StrictlyShaped(o.body) THEN {OK}
    ELSE {OK, Internal}

\* the code sendDataToAPI returned to Predict, as the call's result shows it
ForwardingCode(c) ==
    IF result[c].kind = "reply" THEN OK ELSE result[c].err.innerCode

\* C15: sendDataToAPI classifies every downstream condition as the
\* reference classifier does: transport failure Unavailable, status in
\* [400,500) InvalidArgument, any other status outside [200,300) Internal,
\* undecodable 2xx body Internal, decodable 2xx body no error.
C15_ForwardingClassifier ==
    \A c \in Calls :
        pc[c] = "done" /\ downstream[c].kind # "none" =>
            ForwardingCode(c) \in ReferenceCodes(downstream[c])

\* C15 witness: a 400 answer was classified InvalidArgument
C15_Witness ==
    \E c \in Calls :
        /\ AnsweredWith(c, 400)
        /\ result[c].err.innerCode = InvalidArgument

\* the forwarding client returned a failure to the call
ForwardingFailed(c) ==
    /\ downstream[c].kind # "none"
    /\ \/ downstream[c].kind \in {"doerr", "readerr"}
       \/ downstream[c].code < 200
       \/ downstream[c].code >= 300
       \/ unmarshalAPIResponse(downstream[c].body).err

\* C16: the label counted for a returned call matches its terminal path:
\* ok iff a reply was returned, bad-input iff the input was undecodable,
\* empty-input iff it decoded to an empty vector, api-error iff the
\* forwarding client failed, internal-error iff re-encoding the output
\* failed (which no decoded output does).
C16_LabelMatchesPath ==
    \A c \in Calls :
        pc[c] = "done" =>
            LET u == unmarshalFloats(req[c].InputData)
            IN  /\ Len(counted[c]) = 1
                /\ counted[c][1] = "ok" <=> result[c].kind = "reply"
                /\ counted[c][1] = "bad-input" <=> u.err
                /\ counted[c][1] = "empty-input" <=>
                      ~u.err /\ Len(u.slice.elems) = 0
                /\ counted[c][1] = "api-error" <=> ForwardingFailed(c)
                /\ counted[c][1] = "internal-error" <=>
                      /\ downstream[c].kind # "none"
                      /\ ~ForwardingFailed(c)
                      /\ result[c].kind = "error"

\* C16 witness: a call with input [] was counted under empty-input
C16_Witness ==
    \E c \in Calls :
        /\ pc[c] = "done"
        /\ req[c].InputData = Arr(<<>>)
        /\ counted[c] = <<"empty-input">>
        /\ requestCount["empty-input"] = 1

IsPrefix(a, b) == Len(a) <= Len(b) /\ \A i \in 1..Len(a) : a[i] = b[i]
Last(a) == IF a = <<>> THEN "" ELSE a[Len(a)]
HappyPath == <<"Received", "Validated", "Forwarded", "Translated", "Completed">>

\* the stage sequences of the handler's state machine
StagesInOrder(st) ==
    \/ IsPrefix(st, SubSeq(HappyPath, 1, 3))
    \/ st = HappyPath
    \/ /\ Len(st) >= 2
       /\ Last(st) = "Failed"
       /\ IsPrefix(SubSeq(st, 1, Len(st) - 1), SubSeq(HappyPath, 1, 3))

\* C17: a call passes Received, Validated, Forwarded, Translated in that
\* order and ends in exactly one terminal state; the downstream call is
\* issued only after validation succeeded, a reply is built only after the
\* downstream call succeeded, a returned call has a reply or an error and
\* never both, and every error has one of the three codes.
C17_HandlerStateMachine ==
    \A c \in Calls :
        /\ StagesInOrder(stages[c])
        /\ pc[c] = "done" <=> Last(stages[c]) \in {"Completed", "Failed"}
        /\ pc[c] = "done" <=> result[c].kind \in {"reply", "error"}
        /\ result[c].kind = "reply" <=> Last(stages[c]) = "Completed"
        /\ httpCalls[c] # <<>> =>
              /\ ~Rejectable(req[c].InputData)
              /\ Len(stages[c]) >= 3 /\ stages[c][2] = "Validated"
        /\ result[c].kind = "reply" =>
              /\ result[c].err = NoErr
              /\ httpCalls[c] # <<>>
              /\ downstream[c].kind = "response"
              /\ downstream[c].code >= 200 /\ downstream[c].code < 300
        /\ result[c].kind = "error" =>
              /\ result[c].err.code \in {InvalidArgument, Unavailable, Internal}
              /\ result[c].OutputData = NoDoc

\* C17 witness: a call went through all the stages and returned a reply
C17_Witness ==
    \E c \in Calls :
        /\ stages[c] = HappyPath
        /\ result[c].kind = "reply"
        /\ Len(httpCalls[c]) = 1

\* C18: a call with valid input whose downstream endpoint never responds and
\* whose caller never cancels still returns: the client's hard timeout aborts
\* the outbound call and Predict returns an error.
C18_HungDownstreamReturns ==
    /\ (pc[1] \in {"received", "validated", "forwarded"}) ~> (pc[1] = "done")
    /\ [](\A c \in Calls :
            pc[c] = "done" /\ downstream[c] = DoError("Client.Timeout exceeded") =>
                /\ outbound[c] = "aborted"
                /\ result[c].kind = "error"
                /\ result[c].err.code = Unavailable)

\* C18 witness: an uncancelled call returned because the client timed out
C18_Witness ==
    /\ pc[1] = "done"
    /\ ~ctxDone[1]
    /\ ~Rejectable(req[1].InputData)
    /\ downstream[1] = DoError("Client.Timeout exceeded")
    /\ outbound[1] = "aborted"
    /\ result[1].kind = "error"

\* the calls that returned with outcome label l
EndedWith(l) == {c \in Calls : pc[c] = "done" /\ counted[c] = <<l>>}
Returned == {c \in Calls : pc[c] = "done"}

RECURSIVE SumCounts(_)
SumCounts(ls) ==
    IF ls = {} THEN 0
    ELSE LET l == CHOOSE x \in ls : TRUE
         IN  requestCount[l] + SumCounts(ls \ {l})

\* C19: under every interleaving of concurrent calls each outcome counter
\* equals the number of calls that ended with that label, the counters sum
\* to the number of returned calls and to the number of latency
\* observations, and two calls with the same request and the same downstream
\* response have the same reply or error.
C19_NoLostUpdateNoInterference ==
    /\ \A l \in Labels : requestCount[l] = Cardinality(EndedWith(l))
    /\ SumCounts(Labels) = Cardinality(Returned)
    /\ requestDuration = Cardinality(Returned)
    /\ \A c1, c2 \in Returned :
          req[c1] = req[c2] /\ downstream[c1] = downstream[c2] =>
              result[c1] = result[c2]

\* C19 witness: two calls that overlapped in time ended with the same label
C19_Witness ==
    \E c1, c2 \in Calls :
        /\ c1 # c2
        /\ pc[c1] = "done" /\ pc[c2] = "done"
        /\ counted[c1] = <<"api-error">> /\ counted[c2] = <<"api-error">>
        /\ requestCount["api-error"] = 2
        /\ requestDuration = 2

\* C20: a call with valid input is forwarded whatever its model name, the
\* empty one included, and two calls with the same input and the same
\* downstream response have the same outcome whatever their model names.
C20_ModelNameNeverRejects ==
    /\ \A c \in Calls :
          pc[c] = "done" /\ ~Rejectable(req[c].InputData) =>
              /\ Len(httpCalls[c]) = 1
              /\ counted[c] \notin {<<"bad-input">>, <<"empty-input">>}
    /\ \A c1, c2 \in Calls :
          /\ pc[c1] = "done" /\ pc[c2] = "done"
          /\ req[c1].InputData = req[c2].InputData
          /\ downstream[c1] = downstream[c2]
          => /\ result[c1] = result[c2]
             /\ counted[c1] = counted[c2]

\* C20 witness: a call with the empty model name and one with a name got the
\* same successful response
C20_Witness ==
    \E c1, c2 \in Calls :
        /\ req[c1].ModelName = "" /\ req[c2].ModelName # ""
        /\ pc[c1] = "done" /\ pc[c2] = "done"
        /\ req[c1].InputData = req[c2].InputData
        /\ downstream[c1] = downstream[c2]
        /\ result[c1].kind = "reply"

====
